---------------------------- MODULE Spec2Model ----------------------------
(***************************************************************************)
(* tokio_eld: EldHistogram, an event-loop-delay sampler (src/src/lib.rs).  *)
(*                                                                         *)
(* The controller owns a histogram in an UnsafeCell, an optional abort     *)
(* handle `fut` and a resolution.  start() hands an unchecked `&mut` to    *)
(* the histogram to a task spawned on the runtime; the task loops          *)
(*   interval.tick().await; clock = now; yield_now().await;                *)
(*   let _ = ht.record(clock.elapsed().as_nanos())                         *)
(* stop() takes the handle and aborts the task it names.                   *)
(*                                                                         *)
(* The clock `now` counts milliseconds, the granularity of the runtime's   *)
(* timers; a Duration is a pair of whole milliseconds and the nanoseconds  *)
(* beyond them.  The runtime may be multi-threaded, so the owner's calls   *)
(* interleave with the task's steps at any point; nothing in the code      *)
(* synchronises the writers, and of two record() calls that are inside the *)
(* histogram at once one increment of the total count may be lost.         *)
(***************************************************************************)
EXTENDS Integers, FiniteSets, Sequences, TLC

\* ---------------------------------------------------------------- bounds
\* Tasks that start() may spawn in one behaviour.
MaxTasks == 2
\* Largest resolution (milliseconds) drawn for new(resolution).
MaxResolution == 1
\* Idle time (milliseconds) that may pass in the unrestricted specification.
MaxMillis == 1
\* Largest sub-millisecond part (nanoseconds) of a measured yield_now()
\* round trip; the smallest is 1: the round trip takes time.
MaxLatency == 2
\* Longest blocking work (milliseconds) injected into the scheduler.
MaxBlock == 2
\* Largest total count up to which the owner itself records.
MaxOwnerCount == 1
\* Longest sleep (milliseconds) of the generalised test program.
MaxSleep == 5

\* ------------------------------------------------------------- constants
\* Duration::from_millis / Duration::as_nanos: nanoseconds in a millisecond.
NanosPerMilli == 1000000
\* tests::test_eld: EldHistogram::<u64>::new(20).
TestResolution == 20
\* tests::test_eld: sleep(Duration::from_secs(1)), in milliseconds.
TestSleepMs == 1000

\* Histogram::<C>::new(5): the significant digits the histogram keeps.
Sigfig == 5
\* hdrhistogram: the largest number of significant digits it supports.
MaxSigfig == 5

VARIABLES
  ht,          \* the histogram in the UnsafeCell (count, min(), max())
  fut,         \* Option<AbortHandle>: 0 is None, t > 0 names task t
  resolution,  \* the resolution given to new()
  alive,       \* FALSE once the EldHistogram value has been dropped
  opc,         \* the owner's position: "idle", or "rec" inside a record
  oreg,        \* the value of the owner's in-flight record
  tasks,       \* the spawned tasks
  now,         \* the monotonic clock, whole milliseconds
  tpc,         \* position of the test program, "off" when it does not run
  sleepMs,     \* the duration the test program sleeps, milliseconds
  newCall      \* the call of new(): its argument and the Result it returned

vars == <<ht, fut, resolution, alive, opc, oreg, tasks, now, tpc, sleepMs, newCall>>

TaskIds == 1..MaxTasks

\* The values the owner records through DerefMut.
OwnerValues == {0}

Max2(a, b) == IF a >= b THEN a ELSE b
Min2(a, b) == IF a <= b THEN a ELSE b

\* ------------------------------------------------------------- histogram
\* The histogram capability (hdrhistogram::Histogram, consumed, not built):
\* total count, min() and max(); min() and max() of an empty histogram are 0.
EmptyHist == [count |-> 0, min |-> 0, max |-> 0]

\* Histogram::new(sigfig) is Ok for 0..5 significant digits and returns a
\* CreationError above that.
HistNewOk(sigfig) == sigfig \in 0..MaxSigfig

\* Largest value record() accepts; above it record() returns RecordError.
HighestTrackable == 2 * NanosPerMilli - 1

InRange(v) == v <= HighestTrackable

\* record(v) on structure h: Ok increments the count and folds v into min
\* and max, Err (v out of range) leaves the structure as it is.  `lost`
\* says that the increment was overwritten by a racing writer's.
HistRecord(h, lost, v) ==
  IF InRange(v)
    THEN [count |-> IF lost THEN h.count ELSE h.count + 1,
          min   |-> IF h.count = 0 THEN v ELSE Min2(h.min, v),
          max   |-> Max2(h.max, v)]
    ELSE h

\* ----------------------------------------------------------------- units
\* Slip: the resolution taken as seconds (Duration::from_secs).
FromSecs(r) == [ms |-> r * 1000, ns |-> 0]

\* tokio::time::Duration::from_millis(r).
FromMillis(r) == [ms |-> r, ns |-> 0]

\* Slip: the sample taken in milliseconds (as_millis), the unit of the
\* resolution.
AsMillis(d) == d.ms

\* clock.elapsed().as_nanos() as u64 (the cast cuts nothing below 584 years).
AsNanos(d) == d.ms * NanosPerMilli + d.ns

\* ----------------------------------------------------------------- tasks
\* pc: "none" not spawned, "spawned" not polled yet, "tick" suspended in
\* interval.tick(), "yield" suspended in yield_now(), "rec" inside record(),
\* "panicked", "aborted".  cancelled: abort() was called while the task was
\* running.  dangling: the histogram is no longer where the captured
\* reference points.  due: the interval's next deadline.  clock: the
\* Instant taken before the yield.  elapsed: the sample being recorded.
\* Three fields are observations, not program state: blockedTick and
\* blockedYield sum the blocking work (ms) injected in this cycle while the
\* task waited for its tick and while it was suspended in yield_now();
\* drops is 0 until a record of the task fails, 1 after a failed record and
\* 2 once a later record has succeeded.
NoTask ==
  [pc |-> "none", cancelled |-> FALSE, dangling |-> FALSE, due |-> 0,
   clock |-> 0, elapsed |-> 0, blockedTick |-> 0, blockedYield |-> 0,
   drops |-> 0]

\* A task the runtime has dropped after abort(): it is never polled again.
Aborted == [NoTask EXCEPT !.pc = "aborted", !.cancelled = TRUE]

Spawned == {t \in TaskIds : tasks[t].pc # "none"}

\* A task that can still reach a record: spawned and neither aborted nor
\* panicked (an aborted task already inside record() finishes that call).
Live(t) == tasks[t].pc \in {"spawned", "tick", "yield", "rec"}

\* The reference captured at start() still points at the histogram.
RefValid(t) == alive /\ ~tasks[t].dangling

\* A task the scheduler can run now.
Runnable(t) ==
  \/ tasks[t].pc \in {"spawned", "yield", "rec"}
  \/ tasks[t].pc = "tick" /\ now >= tasks[t].due

\* Slip: the resolution field is filled with a default (one millisecond),
\* not with the argument.
NewDefaultResolution(r) ==
  /\ newCall = [arg |-> r, result |-> "Ok"]
  /\ ht = EmptyHist
  /\ fut = 0
  /\ resolution = 1
  /\ alive = TRUE
  /\ opc = "idle"
  /\ oreg = 0
  /\ tasks = [t \in TaskIds |-> NoTask]
  /\ now = 0

\* new(resolution): Histogram::new(5)? hands a CreationError to the caller
\* and no controller exists; otherwise an empty histogram, no handle, the
\* resolution stored.  Nothing is spawned.
New(r) ==
  /\ newCall = [arg |-> r,
                result |-> IF HistNewOk(Sigfig) THEN "Ok" ELSE "CreationError"]
  /\ ht = EmptyHist
  /\ fut = 0
  /\ resolution = (IF HistNewOk(Sigfig) THEN r ELSE 0)
  /\ alive = HistNewOk(Sigfig)
  /\ opc = "idle"
  /\ oreg = 0
  /\ tasks = [t \in TaskIds |-> NoTask]
  /\ now = 0

Init ==
  /\ \E r \in 0..MaxResolution : New(r)
  /\ tpc = "off"
  /\ sleepMs = 0

\* ------------------------------------------------------ EldHistogram API
\* Slip: start() begins the session with a fresh histogram (ht.reset()).
StartResets ==
  /\ alive /\ opc = "idle"
  /\ Cardinality(Spawned) < MaxTasks
  /\ LET t == Cardinality(Spawned) + 1 IN
       /\ tasks' = [tasks EXCEPT ![t] = [NoTask EXCEPT !.pc = "spawned"]]
       /\ fut' = t
  /\ ht' = EmptyHist
  /\ UNCHANGED <<resolution, alive, opc, oreg, now, sleepMs, newCall>>

\* start(): spawn the sampling task with a reference to the histogram and
\* overwrite fut with its abort handle (the previous handle is dropped,
\* which aborts nothing).
StartCall ==
  /\ alive /\ opc = "idle"
  /\ Cardinality(Spawned) < MaxTasks
  /\ LET t == Cardinality(Spawned) + 1 IN
       /\ tasks' = [tasks EXCEPT ![t] = [NoTask EXCEPT !.pc = "spawned"]]
       /\ fut' = t
  /\ UNCHANGED <<ht, resolution, alive, opc, oreg, now, sleepMs, newCall>>

\* AbortHandle::abort() on task t: a task suspended at an await point is
\* dropped without being polled again; a task that is running (inside
\* record()) runs on to its next await point and is dropped there; a task
\* that has finished is left as it is.
Abort(t) ==
  CASE tasks[t].pc \in {"spawned", "tick", "yield"} -> Aborted
    [] tasks[t].pc = "rec" -> [tasks[t] EXCEPT !.cancelled = TRUE]
    [] OTHER -> tasks[t]

\* Slip: the handle is read, not taken (self.fut.as_ref()): stop() leaves
\* it in place.
StopKeepsHandle ==
  /\ alive /\ opc = "idle"
  /\ IF fut # 0
       THEN tasks' = [tasks EXCEPT ![fut] = Abort(fut)]
       ELSE tasks' = tasks
  /\ fut' = fut
  /\ UNCHANGED <<ht, resolution, alive, opc, oreg, now, sleepMs, newCall>>

\* stop(): if let Some(fut) = self.fut.take() { fut.abort() }.
StopCall ==
  /\ alive /\ opc = "idle"
  /\ IF fut # 0
       THEN tasks' = [tasks EXCEPT ![fut] = Abort(fut)]
       ELSE tasks' = tasks
  /\ fut' = 0
  /\ UNCHANGED <<ht, resolution, alive, opc, oreg, now, sleepMs, newCall>>

Start == StartCall /\ tpc = "off" /\ UNCHANGED tpc

Stop == StopCall /\ tpc = "off" /\ UNCHANGED tpc

\* The EldHistogram value goes out of scope.  The struct has no Drop impl,
\* so nothing is aborted: the histogram and the handle are freed and every
\* task keeps its reference.
DropOwner ==
  /\ tpc = "off"
  /\ alive /\ opc = "idle"
  /\ alive' = FALSE
  /\ ht' = EmptyHist
  /\ fut' = 0
  /\ tasks' = [t \in TaskIds |->
       IF Live(t) THEN [tasks[t] EXCEPT !.dangling = TRUE] ELSE tasks[t]]
  /\ UNCHANGED <<resolution, opc, oreg, now, tpc, sleepMs, newCall>>

\* The EldHistogram value is moved (let h2 = h): the histogram is stored
\* inline in the struct, so it now lives at another address and every
\* reference handed out before points at the old one.
MoveOwner ==
  /\ tpc = "off"
  /\ alive /\ opc = "idle"
  /\ tasks' = [t \in TaskIds |->
       IF Live(t) THEN [tasks[t] EXCEPT !.dangling = TRUE] ELSE tasks[t]]
  /\ UNCHANGED <<ht, fut, resolution, alive, opc, oreg, now, tpc, sleepMs, newCall>>

\* Slip: queries are answered from a snapshot taken at construction and
\* never refreshed.
DerefSnapshot == EmptyHist

\* Deref: the owner's queries (len(), min(), max(), ...) read the histogram
\* in the UnsafeCell itself, no copy and no refresh in between.
Deref == ht

\* DerefMut: the owner calls record(v) on the histogram and is inside it ...
OwnerRecordBegin ==
  /\ tpc = "off"
  /\ alive /\ opc = "idle"
  /\ ht.count < MaxOwnerCount
  /\ \E v \in OwnerValues : oreg' = v
  /\ opc' = "rec"
  /\ UNCHANGED <<ht, fut, resolution, alive, tasks, now, tpc, sleepMs, newCall>>

\* ... until the structure is updated and the call returns.
OwnerRecordEnd ==
  /\ opc = "rec"
  /\ \E lost \in {FALSE} \cup {\E t \in TaskIds : tasks[t].pc = "rec"} :
       ht' = HistRecord(ht, lost, oreg)
  /\ opc' = "idle"
  /\ oreg' = 0
  /\ UNCHANGED <<fut, resolution, alive, tasks, now, tpc, sleepMs, newCall>>

\* DerefMut: the owner calls reset() on the histogram.
OwnerReset ==
  /\ tpc = "off"
  /\ alive /\ opc = "idle"
  /\ ht' = EmptyHist
  /\ UNCHANGED <<fut, resolution, alive, opc, oreg, tasks, now, tpc, sleepMs, newCall>>

\* ------------------------------------------------------ the spawned task
\* Slip: a zero period is accepted (no panic at interval creation).
FirstPollZeroPeriod(t) ==
  /\ tasks[t].pc = "spawned"
  /\ tasks' = [tasks EXCEPT ![t] =
       [@ EXCEPT !.pc = "yield", !.clock = now,
                 !.due = now + FromMillis(resolution).ms]]
  /\ UNCHANGED <<ht, fut, resolution, alive, opc, oreg, now, tpc, sleepMs, newCall>>

\* First poll: tokio::time::interval(from_millis(r)) panics on a zero
\* period; otherwise the interval starts now, its first tick completes
\* immediately, clock = Instant::now() and the task suspends in yield_now().
FirstPoll(t) ==
  /\ tasks[t].pc = "spawned"
  /\ tasks' = [tasks EXCEPT ![t] =
       IF FromMillis(resolution) = FromMillis(0)
         THEN [@ EXCEPT !.pc = "panicked", !.dangling = FALSE]
         ELSE [@ EXCEPT !.pc = "yield", !.clock = now,
                        !.due = now + FromMillis(resolution).ms]]
  /\ UNCHANGED <<ht, fut, resolution, alive, opc, oreg, now, tpc, sleepMs, newCall>>

\* Slip: the loop has no yield_now().await: after the tick the task reads
\* clock.elapsed() at once and enters record().
TickNoYield(t) ==
  /\ tasks[t].pc = "tick"
  /\ now >= tasks[t].due
  /\ \E lat \in 1..MaxLatency :
       tasks' = [tasks EXCEPT ![t] =
         [@ EXCEPT !.pc = "rec", !.due = @ + FromMillis(resolution).ms,
                   !.elapsed = AsNanos([ms |-> 0, ns |-> lat])]]
  /\ UNCHANGED <<ht, fut, resolution, alive, opc, oreg, now, tpc, sleepMs, newCall>>

\* Slip: the next deadline is one period after the completion of this tick
\* (a sleep(period) loop, or MissedTickBehavior::Delay).
TickFromCompletion(t) ==
  /\ tasks[t].pc = "tick"
  /\ now >= tasks[t].due
  /\ tasks' = [tasks EXCEPT ![t] =
       [@ EXCEPT !.pc = "yield", !.clock = now,
                 !.due = now + FromMillis(resolution).ms]]
  /\ UNCHANGED <<ht, fut, resolution, alive, opc, oreg, now, tpc, sleepMs, newCall>>

\* A later interval.tick().await completes once its deadline is reached; the
\* next deadline is one period after this one (MissedTickBehavior::Burst).
\* Then clock = Instant::now() and the task suspends in yield_now().
Tick(t) ==
  /\ tasks[t].pc = "tick"
  /\ now >= tasks[t].due
  /\ tasks' = [tasks EXCEPT ![t] =
       [@ EXCEPT !.pc = "yield", !.clock = now,
                 !.due = @ + FromMillis(resolution).ms]]
  /\ UNCHANGED <<ht, fut, resolution, alive, opc, oreg, now, tpc, sleepMs, newCall>>

\* Slip: the clock is read after the yield instead of before it, so the
\* time spent suspended is not in the sample.
ResumeLateClock(t) ==
  /\ tasks[t].pc = "yield"
  /\ \E lat \in 1..MaxLatency :
       tasks' = [tasks EXCEPT ![t] =
         [@ EXCEPT !.pc = "rec", !.clock = 0,
                   !.elapsed = AsNanos([ms |-> 0, ns |-> lat])]]
  /\ UNCHANGED <<ht, fut, resolution, alive, opc, oreg, now, tpc, sleepMs, newCall>>

\* The scheduler resumes the task after yield_now(): clock.elapsed() is the
\* whole milliseconds the clock moved meanwhile plus some nanoseconds of the
\* round trip itself; the task turns it into nanoseconds and enters
\* record() through its reference.
Resume(t) ==
  /\ tasks[t].pc = "yield"
  /\ \E lat \in 1..MaxLatency :
       tasks' = [tasks EXCEPT ![t] =
         [@ EXCEPT !.pc = "rec", !.clock = 0,
                   !.elapsed = AsNanos([ms |-> now - tasks[t].clock,
                                        ns |-> lat])]]
  /\ UNCHANGED <<ht, fut, resolution, alive, opc, oreg, now, tpc, sleepMs, newCall>>

\* Another writer is inside the histogram together with task t.
Racing(t) ==
  \/ opc = "rec"
  \/ \E u \in TaskIds \ {t} : tasks[u].pc = "rec"

\* Slip: the task records into a copy of the histogram (self.ht.clone()),
\* not through a reference to the controller's own.
RecordIntoCopy(t) ==
  /\ tasks[t].pc = "rec"
  /\ ht' = ht
  /\ tasks' = [tasks EXCEPT ![t] =
       IF tasks[t].cancelled
         THEN Aborted
         ELSE [@ EXCEPT !.pc = "tick", !.elapsed = 0,
                        !.blockedTick = 0, !.blockedYield = 0]]
  /\ UNCHANGED <<fut, resolution, alive, opc, oreg, now, tpc, sleepMs, newCall>>

\* Slip: the Result is unwrapped (ht.record(..).unwrap()), so a failed
\* record panics the task.
RecordUnwrap(t) ==
  /\ tasks[t].pc = "rec"
  /\ \/ /\ alive
        /\ \E lost \in {FALSE, Racing(t)} :
             ht' = HistRecord(ht, lost, tasks[t].elapsed)
     \/ /\ ~RefValid(t)
        /\ ht' = ht
  /\ tasks' = [tasks EXCEPT ![t] =
       IF tasks[t].cancelled
         THEN Aborted
         ELSE IF ~InRange(tasks[t].elapsed)
           THEN [NoTask EXCEPT !.pc = "panicked"]
           ELSE [@ EXCEPT !.pc = "tick", !.elapsed = 0,
                          !.blockedTick = 0, !.blockedYield = 0]]
  /\ UNCHANGED <<fut, resolution, alive, opc, oreg, now, tpc, sleepMs, newCall>>

\* let _ = ht.record(elapsed): the structure is updated; the Result is
\* discarded and the loop goes on to the next tick.  A reference that no
\* longer points at the histogram writes into dead memory (or, when the
\* value was moved and the old bytes still alias it, into the histogram).
Record(t) ==
  /\ tasks[t].pc = "rec"
  /\ \/ /\ alive
        /\ \E lost \in {FALSE, Racing(t)} :
             ht' = HistRecord(ht, lost, tasks[t].elapsed)
     \/ /\ ~RefValid(t)
        /\ ht' = ht
  /\ tasks' = [tasks EXCEPT ![t] =
       IF tasks[t].cancelled
         THEN Aborted
         ELSE [@ EXCEPT !.pc = "tick", !.elapsed = 0,
                        !.blockedTick = 0, !.blockedYield = 0,
                        !.drops = IF ~InRange(tasks[t].elapsed) THEN 1
                                  ELSE IF @ = 0 THEN 0 ELSE 2]]
  /\ UNCHANGED <<fut, resolution, alive, opc, oreg, now, tpc, sleepMs, newCall>>

TaskStep == \E t \in TaskIds : FirstPoll(t) \/ Tick(t) \/ Resume(t) \/ Record(t)

\* ------------------------------------------------------------------ time
\* Time passes while the scheduler is idle: nothing is runnable, so the
\* clock moves on by one millisecond towards the next timer.
AdvanceTime(limit) ==
  /\ \A t \in TaskIds : ~Runnable(t)
  /\ now < limit
  /\ now' = now + 1
  /\ UNCHANGED <<ht, fut, resolution, alive, opc, oreg, tasks, tpc, sleepMs, newCall>>

\* Blocking work of b milliseconds occupies the scheduler: time passes
\* although tasks are runnable.  A task suspended in yield_now() is kept
\* from resuming for that long.
Block(limit) ==
  /\ \E b \in 1..MaxBlock :
       /\ now + b <= limit
       /\ now' = now + b
       /\ tasks' = [t \in TaskIds |->
            CASE tasks[t].pc = "yield" ->
                   [tasks[t] EXCEPT !.blockedYield = @ + b]
              [] tasks[t].pc = "tick" ->
                   [tasks[t] EXCEPT !.blockedTick = @ + b]
              [] OTHER -> tasks[t]]
  /\ UNCHANGED <<ht, fut, resolution, alive, opc, oreg, tpc, sleepMs, newCall>>

Advance == AdvanceTime(MaxMillis)

\* ------------------------------------------------- the unrestricted model
\* Any use of the API by the owner, on a runtime of any flavour.
Next ==
  \/ Start
  \/ Stop
  \/ DropOwner
  \/ MoveOwner
  \/ OwnerRecordBegin
  \/ OwnerRecordEnd
  \/ OwnerReset
  \/ TaskStep
  \/ Advance

Spec == Init /\ [][Next]_vars

\* ------------------------------------------------------ the test program
\* tests::test_eld, for any resolution and any sleep: new(r); start();
\* sleep(d).await; stop(); then the assertions.  The test runs on the
\* runtime it samples, and time passes only while nothing is runnable.
TestInit(rs, ds) ==
  /\ \E r \in rs : New(r)
  /\ tpc = "new"
  /\ sleepMs \in ds

TestStart ==
  /\ tpc = "new"
  /\ StartCall
  /\ tpc' = "sleeping"

TestSleep ==
  /\ tpc = "sleeping"
  /\ AdvanceTime(sleepMs)

TestStop ==
  /\ tpc = "sleeping"
  /\ now >= sleepMs
  /\ StopCall
  /\ tpc' = "stopped"

TestNext ==
  \/ TestStart
  \/ TestSleep
  \/ TestStop
  \/ TaskStep

TestSpec == TestInit(0..MaxResolution, 0..MaxSleep) /\ [][TestNext]_vars

\* The test as written: new(20), sleep of one second.
Test20Spec == TestInit({TestResolution}, {TestSleepMs}) /\ [][TestNext]_vars

\* The test under an overloaded scheduler: blocking work is injected while
\* the test sleeps.
TestStall ==
  /\ tpc = "sleeping"
  /\ Block(sleepMs)

StallNext ==
  \/ TestStart
  \/ TestSleep
  \/ TestStop
  \/ TaskStep
  \/ TestStall

StallSpec == TestInit(0..MaxResolution, 0..MaxSleep) /\ [][StallNext]_vars

\* ================================================================ claims
\* A task completes its record() in this step.
Commit(t) == tasks[t].pc = "rec" /\ tasks'[t].pc # "rec"

InRecord == {t \in TaskIds : tasks[t].pc = "rec"}

\* C1: after any sequence of start() and stop() calls at most one sampling
\* task that can still record into the histogram is live.
C1_AtMostOneLiveWriter == Cardinality({t \in TaskIds : Live(t)}) <= 1

\* C2: once stop() has returned (no handle held) and no cycle is past its
\* yield point, no task passes its yield point again and the total count
\* does not increase behind the owner's back, until the next start().
C2_NoSampleAfterStop ==
  [][(alive /\ fut = 0 /\ InRecord = {} /\ alive' /\ fut' = 0) =>
       /\ InRecord' = {}
       /\ (opc = "idle" /\ opc' = "idle" => ht'.count <= ht.count)]_vars

\* C3: no task is ever inside record() through a reference that no longer
\* points at the histogram (the controller dropped or moved meanwhile).
C3_NoRecordThroughDanglingRef == \A t \in InRecord : RefValid(t)

\* C4: there is never more than one writer inside the histogram: a record
\* by the owner never overlaps a record by a task, nor two tasks' records.
C4_SingleWriter ==
  Cardinality(InRecord) + (IF opc = "rec" THEN 1 ELSE 0) <= 1

\* C5: stop() leaves the controller Idle with no handle, and a stop() with
\* no active session is a no-op: it changes neither the session state nor
\* the histogram (count, min, max) nor any task.
C5_StopIdempotent ==
  [][Stop => /\ fut' = 0
             /\ (fut = 0 => ht' = ht /\ tasks' = tasks)]_vars

\* A finished session whose samples are recorded: stop() is now redundant.
C5_Witness ==
  /\ alive /\ fut = 0 /\ opc = "idle"
  /\ \E t \in TaskIds : tasks[t].pc = "aborted"
  /\ ht.count >= 1

\* C6: for every resolution R > 0, start() on an Idle controller, a fair
\* scheduler for more than R time units, then stop(): the count is >= 1.
C6_CountAtLeastOne ==
  (tpc = "stopped" /\ resolution > 0 /\ sleepMs > resolution)
    => ht.count >= 1

C6_Witness ==
  /\ tpc = "stopped" /\ resolution > 0 /\ sleepMs > resolution
  /\ ht.count >= 1 /\ InRecord = {}

\* C7: every sample the task records is strictly positive, so once a
\* session has recorded a sample min() > 0 (the test's assertion).
C7_SamplesPositive ==
  /\ \A t \in InRecord : tasks[t].elapsed > 0
  /\ (ht.count >= 1 => ht.min > 0)

C7_Witness == tpc = "stopped" /\ ht.count >= 2 /\ ht.min > 0 /\ ht.max > ht.min

\* C8: resolution 20 ms, 1000 ms between start() and stop(): the count
\* after stop() lies in 40..60, and at no time has the session recorded
\* more than one sample per elapsed resolution interval plus one.
C8_CountNearFifty ==
  /\ tpc = "stopped" => (ht.count >= 40 /\ ht.count <= 60)
  /\ resolution > 0 => ht.count <= (now \div resolution) + 1

C8_Witness ==
  /\ tpc = "stopped" /\ resolution = TestResolution /\ sleepMs = TestSleepMs
  /\ InRecord = {}
  /\ ht.count \in 40..60

\* C9 as stated: blocking work of B ms injected between two ticks of the
\* session; when that cycle completes, max() exceeds the resolution by B.
C9_MaxExceedsResolutionByBlock ==
  [][\A t \in TaskIds :
       (Commit(t) /\ tasks[t].blockedTick + tasks[t].blockedYield > 0) =>
         ht'.max >= (resolution + tasks[t].blockedTick
                       + tasks[t].blockedYield) * NanosPerMilli]_vars

\* C9 amended: blocking work of B ms that runs while the task is suspended
\* in yield_now() is in the sample of that cycle, which is at least B ms in
\* nanoseconds; when that record updates the histogram, max() is at least
\* B ms.  The resolution is not part of the sample.
C9_SampleCoversBlockedYield ==
  [][\A t \in TaskIds :
       (Commit(t) /\ tasks[t].blockedYield > 0) =>
         /\ tasks[t].elapsed >= tasks[t].blockedYield * NanosPerMilli
         /\ (ht' # ht => ht'.max >= tasks[t].blockedYield * NanosPerMilli)]_vars

\* A cycle stalled for a millisecond or more was recorded.
C9_Witness ==
  /\ ht.count >= 1 /\ ht.max >= NanosPerMilli
  /\ \E t \in TaskIds : tasks[t].pc = "tick"

\* C10: a record that fails (value out of range) changes nothing in the
\* histogram and the loop goes on to the next tick; an in-range record of
\* the same session is counted, also after a failed one.
C10_DropAndContinue ==
  [][\A t \in TaskIds : Commit(t) =>
       IF InRange(tasks[t].elapsed)
         THEN ht'.count = ht.count + 1
         ELSE /\ ht' = ht
              /\ (~tasks[t].cancelled => tasks'[t].pc = "tick")]_vars

\* A task whose record failed has since recorded an in-range sample.
C10_Witness == \E t \in TaskIds : tasks[t].drops = 2 /\ ht.count >= 1

\* The dropped-samples counter the controller keeps: the struct has the
\* fields ht, fut and resolution and no other, and the loop discards the
\* Result of record(), so nothing is ever counted.
DroppedSamples == 0

\* C11: every cycle a task completes is accounted for, either in the
\* recorded count or in the dropped-samples counter: completing a cycle
\* raises their sum by one.
C11_DropsAccounted ==
  [][\A t \in TaskIds : Commit(t) =>
       ht'.count + DroppedSamples' = ht.count + DroppedSamples + 1]_vars

\* C12: new(resolution) returns a CreationError and no controller, or an
\* Idle controller: empty histogram, no handle, the given resolution
\* stored, no task spawned.
C12_NewIsIdleOrError ==
  tpc = "new" =>
    \/ newCall.result = "CreationError" /\ ~alive /\ Spawned = {}
    \/ /\ newCall.result = "Ok" /\ alive
       /\ ht = EmptyHist /\ ht.count = 0
       /\ fut = 0
       /\ resolution = newCall.arg
       /\ Spawned = {}

\* A controller just built with a positive resolution.
C12_Witness ==
  /\ tpc = "new" /\ newCall.result = "Ok" /\ newCall.arg > 0
  /\ alive /\ fut = 0 /\ ht.count = 0

\* The background tasks that exist and are not cancelled.
Uncancelled == {t \in TaskIds : Live(t) /\ ~tasks[t].cancelled}

\* C13: start() leads to Running and stop() to Idle, and in every state of
\* a controller that exists it holds a handle exactly when one task that
\* is not cancelled exists, and none exactly when no such task exists.
C13_HandleIffOneTask ==
  [][/\ (Start => fut' # 0)
     /\ (Stop => fut' = 0)
     /\ (alive' => /\ (fut' # 0 <=> Cardinality(Uncancelled') = 1)
                   /\ (fut' = 0 <=> Cardinality(Uncancelled') = 0))]_vars

\* The steps a task takes: the first poll creates the interval (or panics)
\* and passes the first tick; then tick, yield, record, tick, ...; abort()
\* ends it from any await point or at the end of a record.
CycleSteps ==
  {<<"none", "spawned">>,
   <<"spawned", "yield">>, <<"spawned", "panicked">>, <<"spawned", "aborted">>,
   <<"tick", "yield">>, <<"tick", "aborted">>,
   <<"yield", "rec">>, <<"yield", "aborted">>,
   <<"rec", "tick">>, <<"rec", "aborted">>}

\* C14: each cycle is tick, capture t0, one yield, one record of (time at
\* resumption - t0): a task enters record() only from its yield point, with
\* the time the clock moved since t0 as the value; it leaves record() only
\* for the next tick; and the count grows only by one, at the end of a
\* record.
C14_CycleOrder ==
  [][/\ \A t \in TaskIds :
          /\ tasks[t].pc # tasks'[t].pc =>
               <<tasks[t].pc, tasks'[t].pc>> \in CycleSteps
          /\ (tasks[t].pc # "yield" /\ tasks'[t].pc = "yield") =>
               tasks'[t].clock = now
          /\ (tasks[t].pc # "rec" /\ tasks'[t].pc = "rec") =>
               /\ tasks[t].pc = "yield"
               /\ tasks'[t].elapsed > (now - tasks[t].clock) * NanosPerMilli
               /\ tasks'[t].elapsed < (now - tasks[t].clock + 1) * NanosPerMilli
     /\ ht'.count > ht.count =>
          /\ ht'.count = ht.count + 1
          /\ opc = "rec" \/ \E t \in TaskIds : Commit(t)]_vars

\* A task in the yield of a later cycle, an earlier one being recorded.
C14_Witness ==
  /\ alive /\ ht.count >= 1 /\ ht.max > 0 /\ opc = "idle"
  /\ tasks[1].pc = "yield" /\ Spawned = {1}

\* C15: the first tick of a session completes at once when the task
\* creates its interval (time S) and the next is due at S + R; each later
\* tick completes no earlier than its due time and moves the due time on by
\* exactly R, however late it completed; nothing else in a cycle moves it.
\* So the k-th tick is due at S + k*R.
C15_TicksOnOriginalGrid ==
  [][\A t \in TaskIds :
       /\ (tasks[t].pc = "spawned" /\ tasks'[t].pc = "yield") =>
            /\ tasks'[t].clock = now
            /\ tasks'[t].due = now + resolution
       /\ (tasks[t].pc = "tick" /\ tasks'[t].pc = "yield") =>
            /\ now >= tasks[t].due
            /\ tasks'[t].due = tasks[t].due + resolution
       /\ (tasks'[t].pc \in {"tick", "yield", "rec"}
             /\ tasks[t].pc \in {"yield", "rec"}) =>
            tasks'[t].due = tasks[t].due]_vars

\* A tick that completed late: the next one is due less than R after it.
C15_Witness ==
  \E t \in TaskIds :
    /\ tasks[t].pc = "yield" /\ resolution > 0
    /\ tasks[t].clock > tasks[t].due - resolution

\* C16: a record the task has completed is visible to the owner at once:
\* the owner's next query reflects it in count, min and max.
C16_RecordVisible ==
  [][\A t \in TaskIds : (alive /\ Commit(t) /\ InRange(tasks[t].elapsed)) =>
       /\ Deref'.count = Deref.count + 1
       /\ Deref'.max >= tasks[t].elapsed
       /\ Deref'.min <= tasks[t].elapsed]_vars

\* C17: start() and stop() leave the histogram as it is, and the total
\* count never decreases unless the owner resets the histogram or drops the
\* controller; a second session adds to the samples of the first.
C17_StartStopKeepSamples ==
  [][/\ (Start \/ Stop) => ht' = ht
     /\ ht'.count >= ht.count \/ OwnerReset \/ DropOwner]_vars

\* A second session is running on top of recorded samples.
C17_Witness ==
  /\ alive /\ Spawned = {1, 2}
  /\ tasks[1].pc = "aborted" /\ tasks[2].pc = "tick"
  /\ ht.count >= 2 /\ ht.max > 0

\* C18: new(0) succeeds; after start() the controller holds a handle, the
\* task ends at interval creation and never reaches a tick, a yield or a
\* record: the count stays 0 for the whole session.
C18_ZeroResolution ==
  newCall.arg = 0 =>
    /\ newCall.result = "Ok" /\ alive /\ resolution = 0
    /\ tpc = "sleeping" => fut # 0
    /\ \A t \in TaskIds : tasks[t].pc \notin {"tick", "yield", "rec"}
    /\ ht.count = 0

\* The session of a zero-resolution controller: handle held, task gone.
C18_Witness ==
  /\ resolution = 0 /\ tpc = "sleeping" /\ now > 0
  /\ fut # 0
  /\ tasks[fut].pc = "panicked"

=============================================================================
